---------------------------- MODULE Spec2Model ----------------------------
(***************************************************************************)
(* Model of the calculation engine of satangai:                            *)
(*   calculateCashFlowMetrics       (cash-flow health scoring)             *)
(*   calculateRetirementProjection  (retirement projection)                *)
(*   generateWealthTimeline         (year-by-year wealth timeline)         *)
(*                                                                         *)
(* A JavaScript number is modelled as a fixed-point value: the integer n   *)
(* stands for n / SCALE.  Every multiplication and division rounds its     *)
(* result to the nearest representable value, as binary64 arithmetic does  *)
(* at a finer grain.  Infinity and NaN are two reserved values.            *)
(***************************************************************************)
EXTENDS Integers, Sequences, FiniteSets, TLC

VARIABLES
    cashFlow,      \* the CashFlow record passed to calculateCashFlowMetrics
    metrics,       \* the CashFlowMetrics record it returned (NoResult before)
    cfpc,          \* position of the cash-flow caller: "call" | "done"
    plan,          \* the RetirementPlan passed to calculateRetirementProjection
    rpc,           \* position inside the retirement calculator
    loc,           \* locals of calculateRetirementProjection (lines 26-78)
    age,           \* loop variable of generateWealthTimeline
    wealth,        \* local `wealth` of generateWealthTimeline
    withdrawalWealth, \* local `withdrawalWealth` of generateWealthTimeline
    currentYear,   \* new Date().getFullYear(), read once per call
    timeline,      \* local `timeline` of generateWealthTimeline
    projection,    \* the RetirementProjection returned (NoResult before)
    thrown,        \* message of the Error thrown ("" when none)
    previous,      \* input and result of the page's previous call, if any
    db,            \* the tables cashFlows and retirements of the database
    page,          \* what useCashflowData / useRetirementData last returned
    now            \* the clock read by new Date()

vars == <<cashFlow, metrics, cfpc, plan, rpc, loc, age, wealth,
          withdrawalWealth, currentYear, timeline, projection, thrown,
          previous, db, page, now>>

cfVars == <<cashFlow, metrics, cfpc>>
retVars == <<plan, rpc, loc, age, wealth, withdrawalWealth, currentYear,
             timeline, projection, thrown>>
storeVars == <<db, page, now>>

-----------------------------------------------------------------------------
(* Numbers *)

SCALE == 1000 * 1000
HALF == SCALE \div 2
KILO == 10 * 100

Infinity == 2147483647
NaN == -2147483647

IsFinite(x) == x # Infinity /\ x # NaN

Num(n) == n * SCALE

Abs(x) == IF x < 0 THEN -x ELSE x
Sign(x) == IF x < 0 THEN -1 ELSE 1

\* a + b
Add(a, b) ==
    IF a = NaN \/ b = NaN THEN NaN
    ELSE IF a = Infinity \/ b = Infinity THEN Infinity
    ELSE a + b

\* a - b  (b is never infinite in the code modelled)
Sub(a, b) ==
    IF a = NaN \/ b = NaN THEN NaN
    ELSE IF a = Infinity THEN Infinity
    ELSE a - b

MulAbs(a, b) ==
    LET ah == a \div KILO
        al == a % KILO
        bh == b \div KILO
        bl == b % KILO
        mid == ah * bl + al * bh
    IN  ah * bh + (mid \div KILO)
          + (((mid % KILO) * KILO + al * bl + HALF) \div SCALE)

\* a * b, rounded to the nearest representable value
Mul(a, b) ==
    IF a = NaN \/ b = NaN THEN NaN
    ELSE IF a = Infinity \/ b = Infinity
         THEN (IF a = 0 \/ b = 0 THEN NaN ELSE Infinity)
    ELSE Sign(a) * Sign(b) * MulAbs(Abs(a), Abs(b))

RECURSIVE DivDigits(_, _, _)
\* the first k decimal digits of r / b after the point (0 <= r < b), rounded
DivDigits(r, b, k) ==
    IF k = 0 THEN (IF 2 * r >= b THEN 1 ELSE 0)
    ELSE LET d == (r * 10) \div b
             rest == (r * 10) % b
         IN  d * (10 ^ (k - 1)) + DivDigits(rest, b, k - 1)

DivAbs(a, b) == (a \div b) * SCALE + DivDigits(a % b, b, 6)

\* a / b, rounded to the nearest representable value
Div(a, b) ==
    IF a = NaN \/ b = NaN THEN NaN
    ELSE IF b = Infinity THEN (IF a = Infinity THEN NaN ELSE 0)
    ELSE IF a = Infinity THEN Infinity
    ELSE IF b = 0 THEN (IF a = 0 THEN NaN ELSE Infinity)
    ELSE Sign(a) * Sign(b) * DivAbs(Abs(a), Abs(b))

Min(a, b) == IF a = NaN \/ b = NaN THEN NaN ELSE IF a < b THEN a ELSE b
Max(a, b) == IF a = NaN \/ b = NaN THEN NaN ELSE IF a > b THEN a ELSE b

\* Math.round: nearest integer, ties towards +Infinity
Round(x) ==
    IF ~IsFinite(x) THEN x ELSE ((x + HALF) \div SCALE) * SCALE

RECURSIVE Pow(_, _)
\* Math.pow(base, n) for an integer n >= 0
Pow(base, n) == IF n = 0 THEN Num(1) ELSE Mul(Pow(base, n - 1), base)

IsInteger(x) == IsFinite(x) /\ x % SCALE = 0

-----------------------------------------------------------------------------
(* Input domains *)

MaxIncome == 6
MaxAlloc == 4
Satang == Num(1) \div 100

NoResult == [none |-> TRUE]

Incomes == {Num(n) : n \in -1..MaxIncome}
Amounts == {Num(n) : n \in 0..MaxAlloc} \cup {Satang}

CashFlows ==
    [id : {"test-id"}, monthlyIncome : Incomes, expenses : Amounts,
     debt : Amounts, investments : Amounts, createdAt : {1}, updatedAt : {1}]

-----------------------------------------------------------------------------
(* calculateCashFlowMetrics *)

\* ShortCircuit with the investments left out of remainingCash
ShortCircuit_DropsInvestments(cf) ==
    [remainingCash |-> Sub(-cf.expenses, cf.debt),
     financialHealthScore |-> 0,
     debtToEquityRatio |-> 0,
     savingRatio |-> 0,
     healthCategory |-> "Poor"]

\* the derived fields returned on the monthlyIncome <= 0 path
ShortCircuit(cf) ==
    [remainingCash |-> Sub(Sub(-cf.expenses, cf.debt), cf.investments),
     financialHealthScore |-> 0,
     debtToEquityRatio |-> 0,
     savingRatio |-> 0,
     healthCategory |-> "Poor"]

\* RemainingCashOf clamped at 0
RemainingCashOf_Clamped(cf) ==
    Max(0, Sub(cf.monthlyIncome,
               Add(Add(cf.expenses, cf.debt), cf.investments)))

RemainingCashOf(cf) ==
    Sub(cf.monthlyIncome, Add(Add(cf.expenses, cf.debt), cf.investments))

EquityOf(cf) == Sub(cf.monthlyIncome, cf.debt)

\* DebtToEquityRatioOf without the Infinity branch
DebtToEquityRatioOf_NoInfinity(cf) ==
    IF EquityOf(cf) > 0 THEN Div(cf.debt, EquityOf(cf)) ELSE 0

DebtToEquityRatioOf(cf) ==
    IF EquityOf(cf) > 0 THEN Div(cf.debt, EquityOf(cf))
    ELSE IF cf.debt > 0 THEN Infinity ELSE 0

SavingRatioOf(cf) == Div(cf.investments, cf.monthlyIncome)

\* SavingScoreOf computed from the 2-decimal savingRatio that is returned
SavingScoreOf_FromRounded(cf) ==
    LET savingRatio ==
            Div(Round(Mul(SavingRatioOf(cf), Num(100))), Num(100))
    IN  Min(Mul(Div(savingRatio, Num(2) \div 10), Num(40)), Num(40))

SavingScoreOf(cf) ==
    Min(Mul(Div(SavingRatioOf(cf), Num(2) \div 10), Num(40)), Num(40))

\* CashScoreOf on the cash left before the investments are made
CashScoreOf_BeforeInvestments(cf) ==
    LET remainingCashRatio ==
            Div(Sub(cf.monthlyIncome, Add(cf.expenses, cf.debt)),
                cf.monthlyIncome)
    IN  Max(Min(Mul(Mul(remainingCashRatio, Num(100)), Num(35) \div 100),
                Num(35)),
            Num(-35))

CashScoreOf(cf) ==
    LET remainingCashRatio == Div(RemainingCashOf(cf), cf.monthlyIncome)
    IN  Max(Min(Mul(Mul(remainingCashRatio, Num(100)), Num(35) \div 100),
                Num(35)),
            Num(-35))

DeScoreOf(cf) ==
    LET debtToEquityRatio == DebtToEquityRatioOf(cf)
        deRatio == IF debtToEquityRatio > 0
                   THEN Div(Num(1), Add(Num(1), debtToEquityRatio))
                   ELSE Num(1)
    IN  Min(Mul(deRatio, Num(25)), Num(25))

\* FinancialHealthScoreOf without the floor at 0
FinancialHealthScoreOf_NoFloor(cf) ==
    Min(Num(100),
        Add(Add(SavingScoreOf(cf), CashScoreOf(cf)), DeScoreOf(cf)))

\* the unrounded local financialHealthScore
FinancialHealthScoreOf(cf) ==
    Max(0, Min(Num(100),
               Add(Add(SavingScoreOf(cf), CashScoreOf(cf)), DeScoreOf(cf))))

HealthCategoryOf(financialHealthScore) ==
    IF financialHealthScore >= Num(80) THEN "Excellent"
    ELSE IF financialHealthScore >= Num(60) THEN "Good"
    ELSE IF financialHealthScore >= Num(40) THEN "Fair"
    ELSE "Poor"

\* Math.floor: the greatest integer not above x
Floor(x) == IF ~IsFinite(x) THEN x ELSE (x \div SCALE) * SCALE

\* Round2 truncating instead of rounding to nearest
Round2_Truncate(x) == Div(Floor(Mul(x, Num(100))), Num(100))

\* Math.round(x * 100) / 100
Round2(x) == Div(Round(Mul(x, Num(100))), Num(100))

\* Derived without the monthlyIncome <= 0 return
Derived_NoShortCircuit(cf) ==
    [remainingCash |-> RemainingCashOf(cf),
     financialHealthScore |-> Round(FinancialHealthScoreOf(cf)),
     debtToEquityRatio |-> Round2(DebtToEquityRatioOf(cf)),
     savingRatio |-> Round2(SavingRatioOf(cf)),
     healthCategory |-> HealthCategoryOf(FinancialHealthScoreOf(cf))]

Derived(cf) ==
    IF cf.monthlyIncome <= 0 THEN ShortCircuit(cf)
    ELSE [remainingCash |-> RemainingCashOf(cf),
          financialHealthScore |-> Round(FinancialHealthScoreOf(cf)),
          debtToEquityRatio |-> Round2(DebtToEquityRatioOf(cf)),
          savingRatio |-> Round2(SavingRatioOf(cf)),
          healthCategory |-> HealthCategoryOf(FinancialHealthScoreOf(cf))]

\* {...cashFlow, <derived fields>}
calculateCashFlowMetrics(cf) == Derived(cf) @@ cf

-----------------------------------------------------------------------------
(* calculateRetirementProjection *)

\* DEFAULT_INFLATION_RATE at 3% a year
DEFAULT_INFLATION_RATE_ThreePercent == Num(3) \div 100

DEFAULT_INFLATION_RATE == Num(4) \div 100

MinAge == 18
MaxAge == 22
MaxSavings == 2
MaxExpenses == 2
MaxShare == 1
MinRate == -10
MaxRate == 20
ThisYear == 2026

Ages == MinAge..MaxAge
Rates == {Num(MinRate), Num(-3), 0, Num(6), Num(MaxRate)}
Years == {ThisYear}

RetirementPlans ==
    [id : {"plan-id"}, userId : {"default"},
     currentAge : Ages, retirementAge : Ages, lifeExpectancy : Ages,
     monthlySavings : {Num(n) : n \in 0..MaxSavings},
     expectedReturnRate : Rates,
     inflationAdjusted : BOOLEAN,
     monthlyExpenses : {Num(n) : n \in 0..MaxExpenses},
     stocks : {Num(n) : n \in 0..MaxShare},
     funds : {Num(n) : n \in 0..MaxShare},
     cash : {Num(n) : n \in 0..MaxShare},
     createdAt : {1}, updatedAt : {1}]

\* ValidationError with > in place of >=
ValidationError_StrictAges(p) ==
    IF p.currentAge > p.retirementAge
    THEN "Retirement age must be greater than current age"
    ELSE IF p.retirementAge > p.lifeExpectancy
    THEN "Life expectancy must be greater than retirement age"
    ELSE ""

\* the message of the Error thrown by the basic validation, "" when none
ValidationError(p) ==
    IF p.currentAge >= p.retirementAge
    THEN "Retirement age must be greater than current age"
    ELSE IF p.retirementAge >= p.lifeExpectancy
    THEN "Life expectancy must be greater than retirement age"
    ELSE ""

\* MonthlyRateOf with the sign of the rate dropped
MonthlyRateOf_Unsigned(p) ==
    Div(Div(Abs(p.expectedReturnRate), Num(100)), Num(12))

MonthlyRateOf(p) == Div(Div(p.expectedReturnRate, Num(100)), Num(12))

\* ClosedForm with 1 - compoundFactor in place of compoundFactor - 1
ClosedForm_SignSlip(monthlySavings, monthlyRate, months) ==
    LET compoundFactor == Pow(Add(Num(1), monthlyRate), months)
    IN  Mul(Mul(monthlySavings,
                Div(Sub(Num(1), compoundFactor), monthlyRate)),
            Add(Num(1), monthlyRate))

\* FV = PMT * [((1 + r)^n - 1) / r] * (1 + r)
ClosedForm(monthlySavings, monthlyRate, months) ==
    LET compoundFactor == Pow(Add(Num(1), monthlyRate), months)
    IN  Mul(Mul(monthlySavings,
                Div(Sub(compoundFactor, Num(1)), monthlyRate)),
            Add(Num(1), monthlyRate))

\* FutureValue for contributions at the end of each month: no (1 + r) factor
FutureValue_OrdinaryAnnuity(monthlySavings, monthlyRate, months) ==
    IF monthlyRate = 0 THEN Mul(monthlySavings, Num(months))
    ELSE LET compoundFactor == Pow(Add(Num(1), monthlyRate), months)
         IN  Mul(monthlySavings,
                 Div(Sub(compoundFactor, Num(1)), monthlyRate))

\* the closed form, or PMT * n when r = 0
FutureValue(monthlySavings, monthlyRate, months) ==
    IF monthlyRate = 0 THEN Mul(monthlySavings, Num(months))
    ELSE ClosedForm(monthlySavings, monthlyRate, months)

\* TotalInvestedOf in today's money when the plan is inflation-adjusted
TotalInvestedOf_Deflated(p) ==
    LET yearsToRetirement == p.retirementAge - p.currentAge
        monthsToRetirement == yearsToRetirement * 12
        nominal == Mul(p.monthlySavings, Num(monthsToRetirement))
    IN  IF p.inflationAdjusted
        THEN Div(nominal,
                 Pow(Add(Num(1), DEFAULT_INFLATION_RATE), yearsToRetirement))
        ELSE nominal

TotalInvestedOf(p) ==
    LET yearsToRetirement == p.retirementAge - p.currentAge
        monthsToRetirement == yearsToRetirement * 12
    IN  Mul(p.monthlySavings, Num(monthsToRetirement))

\* ProjectedWealthOf without the monthlyRate === 0 branch
ProjectedWealthOf_NoZeroRateBranch(p) ==
    ClosedForm(p.monthlySavings, MonthlyRateOf(p),
               (p.retirementAge - p.currentAge) * 12)

ProjectedWealthOf(p) ==
    LET monthsToRetirement == (p.retirementAge - p.currentAge) * 12
        monthlyRate == MonthlyRateOf(p)
    IN  IF monthlyRate = 0 THEN TotalInvestedOf(p)
        ELSE ClosedForm(p.monthlySavings, monthlyRate, monthsToRetirement)

\* TargetWealthOf with the present value PV = FV / (1 + i)^n as the factor
TargetWealthOf_PresentValue(p) ==
    LET retirementYears == p.lifeExpectancy - p.retirementAge
        annualExpenses == Mul(p.monthlyExpenses, Num(12))
        inflationFactor ==
            Div(Num(retirementYears),
                Pow(Add(Num(1), DEFAULT_INFLATION_RATE), retirementYears))
    IN  IF p.inflationAdjusted THEN Mul(annualExpenses, inflationFactor)
        ELSE Mul(annualExpenses, Num(retirementYears))

TargetWealthOf(p) ==
    LET retirementYears == p.lifeExpectancy - p.retirementAge
        annualExpenses == Mul(p.monthlyExpenses, Num(12))
        inflationFactor ==
            Div(Sub(Pow(Add(Num(1), DEFAULT_INFLATION_RATE), retirementYears),
                    Num(1)),
                DEFAULT_INFLATION_RATE)
    IN  IF p.inflationAdjusted THEN Mul(annualExpenses, inflationFactor)
        ELSE Mul(annualExpenses, Num(retirementYears))

\* GapStatusOf with > in place of >=
GapStatusOf_Strict(gap) == IF gap > 0 THEN "surplus" ELSE "shortfall"

GapStatusOf(gap) == IF gap >= 0 THEN "surplus" ELSE "shortfall"

\* Percentage without the totalAllocation > 0 guard
Percentage_Unguarded(share, totalAllocation) ==
    Mul(Div(share, totalAllocation), Num(100))

Percentage(share, totalAllocation) ==
    IF totalAllocation > 0
    THEN Mul(Div(share, totalAllocation), Num(100))
    ELSE 0

\* the locals of calculateRetirementProjection before the timeline is built
Locals(p) ==
    LET yearsToRetirement == p.retirementAge - p.currentAge
        retirementYears == p.lifeExpectancy - p.retirementAge
        totalInvested == TotalInvestedOf(p)
        monthlyRate == MonthlyRateOf(p)
        projectedWealth == ProjectedWealthOf(p)
        targetWealth == TargetWealthOf(p)
        gap == Sub(projectedWealth, targetWealth)
        totalAllocation == Add(Add(p.stocks, p.funds), p.cash)
    IN  [yearsToRetirement |-> yearsToRetirement,
         retirementYears |-> retirementYears,
         totalInvested |-> totalInvested,
         monthlyRate |-> monthlyRate,
         projectedWealth |-> projectedWealth,
         targetWealth |-> targetWealth,
         gap |-> gap,
         gapStatus |-> GapStatusOf(gap),
         stockPercentage |-> Percentage(p.stocks, totalAllocation),
         fundPercentage |-> Percentage(p.funds, totalAllocation),
         cashPercentage |-> Percentage(p.cash, totalAllocation)]

NoLocals == [none |-> TRUE]

-----------------------------------------------------------------------------
(* generateWealthTimeline *)

\* InAccumulation with < in place of <=
InAccumulation_Exclusive(a, retirementAge) == a < retirementAge

\* loop condition of the accumulation phase
InAccumulation(a, retirementAge) == a <= retirementAge

\* InWithdrawal with < in place of <=
InWithdrawal_Exclusive(a, lifeExpectancy) == a < lifeExpectancy

\* loop condition of the withdrawal phase
InWithdrawal(a, lifeExpectancy) == a <= lifeExpectancy

\* wealth at age a in the accumulation phase
\* AccumulatedWealth rounded to whole units before it is stored
AccumulatedWealth_Rounded(a, currentAge, monthlySavings, monthlyRate) ==
    LET yearsElapsed == a - currentAge
        monthsElapsed == yearsElapsed * 12
    IN  IF monthsElapsed = 0 THEN 0
        ELSE Round(FutureValue(monthlySavings, monthlyRate, monthsElapsed))

AccumulatedWealth(a, currentAge, monthlySavings, monthlyRate) ==
    LET yearsElapsed == a - currentAge
        monthsElapsed == yearsElapsed * 12
    IN  IF monthsElapsed = 0 THEN 0
        ELSE FutureValue(monthlySavings, monthlyRate, monthsElapsed)

\* YearlyExpenses with the first retirement year at today's prices
YearlyExpenses_FromZero(a, retirementAge, monthlyExpenses, inflationAdjusted) ==
    LET yearsIntoRetirement == a - retirementAge
        annualExpenses == Mul(monthlyExpenses, Num(12))
    IN  IF inflationAdjusted
        THEN Mul(annualExpenses,
                 Pow(Add(Num(1), DEFAULT_INFLATION_RATE),
                     yearsIntoRetirement - 1))
        ELSE annualExpenses

YearlyExpenses(a, retirementAge, monthlyExpenses, inflationAdjusted) ==
    LET yearsIntoRetirement == a - retirementAge
        annualExpenses == Mul(monthlyExpenses, Num(12))
    IN  IF inflationAdjusted
        THEN Mul(annualExpenses,
                 Pow(Add(Num(1), DEFAULT_INFLATION_RATE), yearsIntoRetirement))
        ELSE annualExpenses

\* GrowAndWithdraw with the expenses added instead of subtracted
GrowAndWithdraw_SignSlip(w, monthlyRate, yearlyExpenses) ==
    LET annualRate == Mul(monthlyRate, Num(12))
    IN  Add(Mul(w, Add(Num(1), annualRate)), yearlyExpenses)

\* withdrawalWealth * (1 + annualRate) - yearlyExpenses
GrowAndWithdraw(w, monthlyRate, yearlyExpenses) ==
    LET annualRate == Mul(monthlyRate, Num(12))
    IN  Sub(Mul(w, Add(Num(1), annualRate)), yearlyExpenses)

\* Withdraw without the floor at 0
Withdraw_NoFloor(w, monthlyRate, yearlyExpenses) ==
    GrowAndWithdraw(w, monthlyRate, yearlyExpenses)

\* one year of the withdrawal phase applied to the running wealth w
Withdraw(w, monthlyRate, yearlyExpenses) ==
    Max(0, GrowAndWithdraw(w, monthlyRate, yearlyExpenses))

Point(a, year, w, phase) ==
    [age |-> a, year |-> year, wealth |-> Round(w), phase |-> phase]

-----------------------------------------------------------------------------
(* The cash-flow page: one call of calculateCashFlowMetrics *)

IdleCashFlow ==
    /\ cashFlow = NoResult
    /\ metrics = NoResult
    /\ cfpc = "idle"

IdleRetirement ==
    /\ plan = NoResult
    /\ rpc = "idle"
    /\ loc = NoLocals
    /\ age = 0
    /\ wealth = 0
    /\ withdrawalWealth = 0
    /\ currentYear = 0
    /\ timeline = <<>>
    /\ projection = NoResult
    /\ thrown = ""

\* no record stored, no query delivered: the calculators are called directly
IdleStore ==
    /\ db = [cashFlows |-> {}, retirements |-> {}]
    /\ page = [cashFlow |-> [cashflows |-> <<>>, isLoading |-> TRUE],
               retirement |-> [retirements |-> <<>>, isLoading |-> TRUE]]
    /\ now = 0

InitCashFlow ==
    /\ cashFlow \in CashFlows
    /\ metrics = NoResult
    /\ cfpc = "call"
    /\ IdleRetirement
    /\ IdleStore
    /\ previous = NoResult

CalculateCashFlowMetrics ==
    /\ cfpc = "call"
    /\ metrics' = calculateCashFlowMetrics(cashFlow)
    /\ cfpc' = "done"
    /\ UNCHANGED <<cashFlow, retVars, previous, storeVars>>

NextCashFlow == CalculateCashFlowMetrics

SpecCashFlow == InitCashFlow /\ [][NextCashFlow]_vars

-----------------------------------------------------------------------------
(* The retirement page: one call of calculateRetirementProjection *)

InitRetirement ==
    /\ plan \in RetirementPlans
    /\ rpc = "call"
    /\ loc = NoLocals
    /\ age = 0
    /\ wealth = 0
    /\ withdrawalWealth = 0
    /\ currentYear = 0
    /\ timeline = <<>>
    /\ projection = NoResult
    /\ thrown = ""
    /\ IdleCashFlow
    /\ IdleStore
    /\ previous = NoResult

\* lines 18-23: the basic validation fails and the call throws
ThrowValidationError ==
    /\ rpc = "call"
    /\ ValidationError(plan) # ""
    /\ thrown' = ValidationError(plan)
    /\ rpc' = "threw"
    /\ UNCHANGED <<plan, loc, age, wealth, withdrawalWealth, currentYear,
                   timeline, projection, cfVars, previous, storeVars>>

\* EnterTimeline with a timeline array that outlives the call
EnterTimeline_SharedTimeline ==
    /\ rpc = "call"
    /\ ValidationError(plan) = ""
    /\ loc' = Locals(plan)
    /\ \E y \in Years : currentYear' = y
    /\ wealth' = 0
    /\ age' = plan.currentAge
    /\ rpc' = "accumulation"
    /\ UNCHANGED <<plan, withdrawalWealth, timeline, projection, thrown,
                   cfVars, previous, storeVars>>

\* lines 18-89 and 119-124: validation passes, the locals are computed and
\* generateWealthTimeline is entered
EnterTimeline ==
    /\ rpc = "call"
    /\ ValidationError(plan) = ""
    /\ loc' = Locals(plan)
    /\ \E y \in Years : currentYear' = y
    /\ timeline' = <<>>
    /\ wealth' = 0
    /\ age' = plan.currentAge
    /\ rpc' = "accumulation"
    /\ UNCHANGED <<plan, withdrawalWealth, projection, thrown, cfVars, previous, storeVars>>

\* lines 124-147: one iteration of the accumulation loop
AccumulationStep ==
    /\ rpc = "accumulation"
    /\ InAccumulation(age, plan.retirementAge)
    /\ LET w == AccumulatedWealth(age, plan.currentAge, plan.monthlySavings,
                                  loc.monthlyRate)
       IN  /\ wealth' = w
           /\ timeline' = Append(timeline,
                  Point(age, currentYear + (age - plan.currentAge), w,
                        "accumulation"))
    /\ age' = age + 1
    /\ UNCHANGED <<plan, rpc, loc, withdrawalWealth, currentYear, projection,
                   thrown, cfVars, previous, storeVars>>

\* EnterWithdrawal with the withdrawal phase starting from the contributions
EnterWithdrawal_SeedsInvested ==
    /\ rpc = "accumulation"
    /\ ~InAccumulation(age, plan.retirementAge)
    /\ withdrawalWealth' = loc.totalInvested
    /\ age' = plan.retirementAge + 1
    /\ rpc' = "withdrawal"
    /\ UNCHANGED <<plan, loc, wealth, currentYear, timeline, projection,
                   thrown, cfVars, previous, storeVars>>

\* lines 149-154: the accumulation loop ends, the withdrawal loop is set up
EnterWithdrawal ==
    /\ rpc = "accumulation"
    /\ ~InAccumulation(age, plan.retirementAge)
    /\ withdrawalWealth' = wealth
    /\ age' = plan.retirementAge + 1
    /\ rpc' = "withdrawal"
    /\ UNCHANGED <<plan, loc, wealth, currentYear, timeline, projection,
                   thrown, cfVars, previous, storeVars>>

\* WithdrawalStep with year: currentYear + yearsIntoRetirement
WithdrawalStep_YearFromRetirement ==
    /\ rpc = "withdrawal"
    /\ InWithdrawal(age, plan.lifeExpectancy)
    /\ LET w == Withdraw(withdrawalWealth, loc.monthlyRate,
                         YearlyExpenses(age, plan.retirementAge,
                                        plan.monthlyExpenses,
                                        plan.inflationAdjusted))
       IN  /\ withdrawalWealth' = w
           /\ timeline' = Append(timeline,
                  Point(age, currentYear + (age - plan.retirementAge), w,
                        "withdrawal"))
    /\ age' = age + 1
    /\ UNCHANGED <<plan, rpc, loc, wealth, currentYear, projection, thrown,
                   cfVars, previous, storeVars>>

\* lines 154-178: one iteration of the withdrawal loop
WithdrawalStep ==
    /\ rpc = "withdrawal"
    /\ InWithdrawal(age, plan.lifeExpectancy)
    /\ LET w == Withdraw(withdrawalWealth, loc.monthlyRate,
                         YearlyExpenses(age, plan.retirementAge,
                                        plan.monthlyExpenses,
                                        plan.inflationAdjusted))
       IN  /\ withdrawalWealth' = w
           /\ timeline' = Append(timeline,
                  Point(age, currentYear + (age - plan.currentAge), w,
                        "withdrawal"))
    /\ age' = age + 1
    /\ UNCHANGED <<plan, rpc, loc, wealth, currentYear, projection, thrown,
                   cfVars, previous, storeVars>>

\* ProjectionFields with a derived field under the name of an input field
ProjectionFields_OverwritesSavings(l, tl) ==
    [yearsToRetirement |-> l.yearsToRetirement,
     retirementYears |-> l.retirementYears,
     totalInvested |-> l.totalInvested,
     monthlySavings |-> l.totalInvested,
     projectedWealth |-> l.projectedWealth,
     targetWealth |-> l.targetWealth,
     gap |-> l.gap,
     gapStatus |-> l.gapStatus,
     stockPercentage |-> l.stockPercentage,
     fundPercentage |-> l.fundPercentage,
     cashPercentage |-> l.cashPercentage,
     wealthTimeline |-> tl]

\* the fields of the returned record that are not plan fields
ProjectionFields(l, tl) ==
    [yearsToRetirement |-> l.yearsToRetirement,
     retirementYears |-> l.retirementYears,
     totalInvested |-> l.totalInvested,
     projectedWealth |-> l.projectedWealth,
     targetWealth |-> l.targetWealth,
     gap |-> l.gap,
     gapStatus |-> l.gapStatus,
     stockPercentage |-> l.stockPercentage,
     fundPercentage |-> l.fundPercentage,
     cashPercentage |-> l.cashPercentage,
     wealthTimeline |-> tl]

\* lines 180 and 91-104: the timeline is returned and the projection built
ReturnProjection ==
    /\ rpc = "withdrawal"
    /\ ~InWithdrawal(age, plan.lifeExpectancy)
    /\ projection' = ProjectionFields(loc, timeline) @@ plan
    /\ rpc' = "done"
    /\ UNCHANGED <<plan, loc, age, wealth, withdrawalWealth, currentYear,
                   timeline, thrown, cfVars, previous, storeVars>>

NextRetirement ==
    \/ ThrowValidationError
    \/ EnterTimeline
    \/ AccumulationStep
    \/ EnterWithdrawal
    \/ WithdrawalStep
    \/ ReturnProjection

SpecRetirement == InitRetirement /\ [][NextRetirement]_vars

-----------------------------------------------------------------------------
(* A page that renders twice: each render calls its calculator again with   *)
(* the record it holds.  The result of the first call is kept in `previous` *)
(* for comparison; the locals of the finished call are dead and are left    *)
(* as they are, the second call initialises its own.                        *)

InitPages == InitCashFlow \/ InitRetirement

RecalculateCashFlowMetrics ==
    /\ cfpc = "done"
    /\ previous = NoResult
    /\ previous' = [input |-> cashFlow, output |-> metrics]
    /\ metrics' = NoResult
    /\ cfpc' = "call"
    /\ UNCHANGED <<cashFlow, retVars, storeVars>>

RecalculateRetirementProjection ==
    /\ rpc = "done"
    /\ previous = NoResult
    /\ previous' = [input |-> plan, output |-> projection]
    /\ projection' = NoResult
    /\ rpc' = "call"
    /\ UNCHANGED <<plan, loc, age, wealth, withdrawalWealth, currentYear,
                   timeline, thrown, cfVars, storeVars>>

NextRecall ==
    \/ NextCashFlow
    \/ NextRetirement
    \/ RecalculateCashFlowMetrics
    \/ RecalculateRetirementProjection

SpecRecall == InitPages /\ [][NextRecall]_vars

-----------------------------------------------------------------------------
(* Two plans that differ only in inflationAdjusted: after the projection of *)
(* a plan is returned, the plan with the flag toggled is projected          *)

CalculateInflationTwin ==
    /\ rpc = "done"
    /\ previous = NoResult
    /\ previous' = [input |-> plan, output |-> projection]
    /\ plan' = [plan EXCEPT !.inflationAdjusted = ~@]
    /\ projection' = NoResult
    /\ rpc' = "call"
    /\ UNCHANGED <<loc, age, wealth, withdrawalWealth, currentYear,
                   timeline, thrown, cfVars, storeVars>>

NextTwin ==
    \/ NextRetirement
    \/ CalculateInflationTwin

SpecTwin == InitRetirement /\ [][NextTwin]_vars

-----------------------------------------------------------------------------
(* The stored records: the forms write them, the live queries of the two   *)
(* pages read them, and each page passes the first record to its calculator *)

MaxRecords == 2
MaxClock == 3

\* crypto.randomUUID(): a UUID is modelled by its rank in the key order
UUIDs == 1..MaxRecords

\* values the cash-flow form accepts (its schema: income positive, the
\* amounts nonnegative and together at most the income)
CashFlowFormValues ==
    [monthlyIncome : {Num(MaxIncome - 1), Num(MaxIncome)}, expenses : {Num(1)},
     debt : {0}, investments : {Num(1)}]

\* values the retirement form accepts
RetirementFormValues ==
    [currentAge : {MinAge}, retirementAge : {MinAge + 1},
     lifeExpectancy : {MinAge + 2},
     monthlySavings : {Num(1), Num(MaxSavings)},
     expectedReturnRate : {0}, inflationAdjusted : {FALSE},
     monthlyExpenses : {Num(1)},
     stocks : {0}, funds : {0}, cash : {0}]

\* db.cashFlows.toArray(): the records in the order of the primary key id
RECURSIVE ToArray(_)
ToArray(table) ==
    IF table = {} THEN <<>>
    ELSE LET first == CHOOSE r \in table : \A s \in table : r.id <= s.id
         IN  <<first>> \o ToArray(table \ {first})

\* db.retirements.orderBy("createdAt").reverse().toArray(): the records from
\* the latest createdAt to the earliest (equal keys in falling id order)
RECURSIVE OrderByCreatedAtReverse(_)
OrderByCreatedAtReverse(table) ==
    IF table = {} THEN <<>>
    ELSE LET first ==
                 CHOOSE r \in table : \A s \in table :
                     \/ r.createdAt > s.createdAt
                     \/ r.createdAt = s.createdAt /\ r.id >= s.id
         IN  <<first>> \o OrderByCreatedAtReverse(table \ {first})

\* table.update(id, changes): the record with that key gets the changes
UpdateRecord(table, id, changes) ==
    {IF r.id = id THEN changes @@ r ELSE r : r \in table}

\* the render and the handlers of a page run to completion: nothing else
\* runs while a calculator is between its call and its return
CalculatorsAtRest == cfpc \in {"idle", "done"} /\ rpc \in {"idle", "done"}

InitStore ==
    /\ IdleCashFlow
    /\ IdleRetirement
    /\ previous = NoResult
    /\ db = [cashFlows |-> {}, retirements |-> {}]
    /\ page = [cashFlow |-> [cashflows |-> <<>>, isLoading |-> TRUE],
               retirement |-> [retirements |-> <<>>, isLoading |-> TRUE]]
    /\ now = 1

\* onSubmit of the cash-flow form opened from the empty state (no
\* initialData): db.cashFlows.add
CreateCashFlow ==
    /\ CalculatorsAtRest
    /\ now <= MaxClock
    /\ ~page.cashFlow.isLoading
    /\ page.cashFlow.cashflows = <<>>
    /\ \E values \in CashFlowFormValues :
       \E uuid \in UUIDs \ {r.id : r \in db.cashFlows} :
           db' = [db EXCEPT !.cashFlows =
                      @ \cup {[id |-> uuid, createdAt |-> now,
                               updatedAt |-> now] @@ values}]
    /\ now' = now + 1
    /\ UNCHANGED <<page, cfVars, retVars, previous>>

\* onSubmit of the cash-flow form opened with initialData = latestCashFlow:
\* db.cashFlows.update
UpdateCashFlow ==
    /\ CalculatorsAtRest
    /\ now <= MaxClock
    /\ page.cashFlow.cashflows # <<>>
    /\ \E values \in CashFlowFormValues :
           db' = [db EXCEPT !.cashFlows =
                      UpdateRecord(@, page.cashFlow.cashflows[1].id,
                                   [updatedAt |-> now] @@ values)]
    /\ now' = now + 1
    /\ UNCHANGED <<page, cfVars, retVars, previous>>

\* the live query of useCashflowData delivers a result and the page renders:
\* with records it passes cashflows[0] to calculateCashFlowMetrics
RenderCashFlowPage ==
    /\ CalculatorsAtRest
    /\ LET data == ToArray(db.cashFlows)
       IN  /\ page.cashFlow.isLoading \/ page.cashFlow.cashflows # data
           /\ page' = [page EXCEPT
                          !.cashFlow = [cashflows |-> data, isLoading |-> FALSE]]
           /\ IF data = <<>> THEN UNCHANGED cfVars
              ELSE /\ cashFlow' = data[1]
                   /\ metrics' = calculateCashFlowMetrics(data[1])
                   /\ cfpc' = "done"
    /\ UNCHANGED <<db, now, retVars, previous>>

\* onSubmit of the retirement form opened from the empty state:
\* db.retirements.add
CreateRetirement ==
    /\ CalculatorsAtRest
    /\ now <= MaxClock
    /\ ~page.retirement.isLoading
    /\ page.retirement.retirements = <<>>
    /\ \E values \in RetirementFormValues :
       \E uuid \in UUIDs \ {r.id : r \in db.retirements} :
           db' = [db EXCEPT !.retirements =
                      @ \cup {[id |-> uuid, userId |-> "default-user",
                               createdAt |-> now, updatedAt |-> now]
                              @@ values}]
    /\ now' = now + 1
    /\ UNCHANGED <<page, cfVars, retVars, previous>>

\* onSubmit of the retirement form opened with initialData = latestPlan:
\* db.retirements.update
UpdateRetirement ==
    /\ CalculatorsAtRest
    /\ now <= MaxClock
    /\ page.retirement.retirements # <<>>
    /\ \E values \in RetirementFormValues :
           db' = [db EXCEPT !.retirements =
                      UpdateRecord(@, page.retirement.retirements[1].id,
                                   [updatedAt |-> now] @@ values)]
    /\ now' = now + 1
    /\ UNCHANGED <<page, cfVars, retVars, previous>>

\* the live query of useRetirementData delivers a result and the page
\* renders: with records it calls calculateRetirementProjection(retirements[0])
RenderRetirementPage ==
    /\ CalculatorsAtRest
    /\ LET data == OrderByCreatedAtReverse(db.retirements)
       IN  /\ page.retirement.isLoading \/ page.retirement.retirements # data
           /\ page' = [page EXCEPT
                          !.retirement = [retirements |-> data,
                                          isLoading |-> FALSE]]
           /\ IF data = <<>> THEN UNCHANGED <<plan, rpc, projection>>
              ELSE /\ plan' = data[1]
                   /\ projection' = NoResult
                   /\ rpc' = "call"
    /\ UNCHANGED <<db, now, loc, age, wealth, withdrawalWealth, currentYear,
                   timeline, thrown, cfVars, previous>>

NextStore ==
    \/ CreateCashFlow
    \/ UpdateCashFlow
    \/ RenderCashFlowPage
    \/ CreateRetirement
    \/ UpdateRetirement
    \/ RenderRetirementPage
    \/ EnterTimeline
    \/ AccumulationStep
    \/ EnterWithdrawal
    \/ WithdrawalStep
    \/ ReturnProjection

SpecStore == InitStore /\ [][NextStore]_vars

-----------------------------------------------------------------------------
(* Properties of calculateCashFlowMetrics, checked under SpecCashFlow *)

Returned == cfpc = "done"

AllocationsOf(cf) == cf.expenses + cf.debt + cf.investments

\* C2: for every snapshot, whatever the sign of the income and however the
\* allocations compare with it, the financialHealthScore returned is an
\* integer between 0 and 100 inclusive.
C2_ScoreIsIntegerInRange ==
    Returned =>
        /\ IsInteger(metrics.financialHealthScore)
        /\ metrics.financialHealthScore >= 0
        /\ metrics.financialHealthScore <= Num(100)

\* an over-allocated snapshot with positive income whose raw score is negative
C2_Witness ==
    /\ Returned
    /\ cashFlow.monthlyIncome > 0
    /\ AllocationsOf(cashFlow) > cashFlow.monthlyIncome
    /\ SavingScoreOf(cashFlow) + CashScoreOf(cashFlow) + DeScoreOf(cashFlow) < 0
    /\ metrics.financialHealthScore = 0

\* C3: the healthCategory returned is the one the thresholds give for the
\* rounded financialHealthScore returned: Excellent iff score >= 80, Good iff
\* 60..79, Fair iff 40..59, Poor iff below 40.
C3_CategoryMatchesReturnedScore ==
    Returned =>
        LET score == metrics.financialHealthScore
            category == metrics.healthCategory
        IN  /\ (category = "Excellent") <=> (score >= Num(80))
            /\ (category = "Good") <=> (score >= Num(60) /\ score < Num(80))
            /\ (category = "Fair") <=> (score >= Num(40) /\ score < Num(60))
            /\ (category = "Poor") <=> (score < Num(40))

\* C4 as stated: over all snapshots the ratio returned is Infinity iff
\* debt > 0 and monthlyIncome - debt <= 0.
C4_InfinityIffOverAllSnapshots ==
    Returned =>
        ((metrics.debtToEquityRatio = Infinity)
            <=> (cashFlow.debt > 0 /\ cashFlow.monthlyIncome - cashFlow.debt <= 0))

\* C4 amended: the ratio returned is Infinity iff monthlyIncome > 0, debt > 0
\* and monthlyIncome - debt <= 0; with monthlyIncome <= 0 it is 0.
C4_InfinityIffPositiveIncome ==
    Returned =>
        /\ (metrics.debtToEquityRatio = Infinity)
             <=> (/\ cashFlow.monthlyIncome > 0
                  /\ cashFlow.debt > 0
                  /\ cashFlow.monthlyIncome - cashFlow.debt <= 0)
        /\ (cashFlow.monthlyIncome <= 0 => metrics.debtToEquityRatio = 0)

\* positive income, debt at or above the income: the ratio is Infinity
C4_Witness ==
    /\ Returned
    /\ cashFlow.monthlyIncome > 0
    /\ cashFlow.debt >= cashFlow.monthlyIncome
    /\ metrics.debtToEquityRatio = Infinity

\* r is x / y rounded to 2 decimal places (ties up), for y > 0
IsRoundedQuotient(r, x, y) ==
    /\ IsFinite(r)
    /\ r % (SCALE \div 100) = 0
    /\ LET k == r \div (SCALE \div 100)
       IN  /\ (2 * k - 1) * y <= 200 * x
           /\ 200 * x < (2 * k + 1) * y

\* C5 as stated: the ratio returned is 0 iff debt = 0, and with debt # 0 and
\* positive equity it is debt / (monthlyIncome - debt) rounded to 2 decimals.
C5_ZeroIffNoDebt ==
    Returned =>
        /\ (metrics.debtToEquityRatio = 0) <=> (cashFlow.debt = 0)
        /\ (cashFlow.debt # 0 /\ cashFlow.monthlyIncome - cashFlow.debt > 0)
             => IsRoundedQuotient(metrics.debtToEquityRatio, cashFlow.debt,
                                  cashFlow.monthlyIncome - cashFlow.debt)

\* C5 amended: the ratio returned is 0 whenever debt = 0; with debt > 0 it is
\* 0 exactly when monthlyIncome <= 0 or debt / (monthlyIncome - debt) is
\* below 0.005 and so rounds to 0.00; for every snapshot with positive income
\* and positive equity it is debt / (monthlyIncome - debt) rounded to 2
\* decimals.
C5_ZeroIffRoundsToZero ==
    Returned =>
        LET equity == cashFlow.monthlyIncome - cashFlow.debt
        IN  /\ (metrics.debtToEquityRatio = 0)
                 <=> \/ cashFlow.debt = 0
                     \/ cashFlow.monthlyIncome <= 0
                     \/ (equity > 0 /\ 200 * cashFlow.debt < equity)
            /\ (cashFlow.monthlyIncome > 0 /\ equity > 0)
                 => IsRoundedQuotient(metrics.debtToEquityRatio,
                                      cashFlow.debt, equity)

\* a small positive debt against a positive income: the ratio rounds to 0
C5_Witness ==
    /\ Returned
    /\ cashFlow.monthlyIncome > 0
    /\ cashFlow.debt > 0
    /\ metrics.debtToEquityRatio = 0

\* C6: with monthlyIncome > 0 the remainingCash returned is
\* monthlyIncome - (expenses + debt + investments), negative when the
\* allocations exceed the income.
C6_RemainingCash ==
    (Returned /\ cashFlow.monthlyIncome > 0) =>
        metrics.remainingCash = cashFlow.monthlyIncome - AllocationsOf(cashFlow)

\* allocations above a positive income: remainingCash is negative
C6_Witness ==
    /\ Returned
    /\ cashFlow.monthlyIncome > 0
    /\ AllocationsOf(cashFlow) > cashFlow.monthlyIncome
    /\ metrics.remainingCash < 0

\* C7: with monthlyIncome <= 0 the result is the short-circuit record:
\* remainingCash = -(expenses + debt + investments), financialHealthScore = 0,
\* debtToEquityRatio = 0, savingRatio = 0 and healthCategory = Poor.
C7_ShortCircuit ==
    (Returned /\ cashFlow.monthlyIncome <= 0) =>
        /\ metrics.remainingCash = -AllocationsOf(cashFlow)
        /\ metrics.financialHealthScore = 0
        /\ metrics.debtToEquityRatio = 0
        /\ metrics.savingRatio = 0
        /\ metrics.healthCategory = "Poor"

\* zero income with debt and investments: the short-circuit record
C7_Witness ==
    /\ Returned
    /\ cashFlow.monthlyIncome = 0
    /\ cashFlow.debt > 0
    /\ cashFlow.investments > 0
    /\ metrics.remainingCash < 0

-----------------------------------------------------------------------------
(* Properties of calculateRetirementProjection, checked under SpecRetirement *)

Misordered(p) ==
    ~(p.currentAge < p.retirementAge /\ p.retirementAge < p.lifeExpectancy)

\* C1: the call raises iff currentAge >= retirementAge or retirementAge >=
\* lifeExpectancy: a misordered plan raises whatever its other fields are and
\* nothing is returned, not even a partial timeline; a plan with currentAge <
\* retirementAge < lifeExpectancy never raises, and the record returned for
\* it is a projection.
C1_RaisesIffMisordered ==
    /\ (rpc # "call") => ((rpc = "threw") <=> Misordered(plan))
    /\ (rpc = "threw") => (thrown # "" /\ projection = NoResult
                            /\ timeline = <<>>)
    /\ (rpc # "threw") => thrown = ""
    /\ (rpc = "done") => (projection # NoResult /\ ~Misordered(plan))

\* a plan with retirementAge >= lifeExpectancy and otherwise usable fields
\* has raised
C1_Witness ==
    /\ rpc = "threw"
    /\ plan.currentAge < plan.retirementAge
    /\ plan.retirementAge >= plan.lifeExpectancy
    /\ plan.monthlySavings > 0
    /\ plan.monthlyExpenses > 0

\* C8: the wealthTimeline of a valid plan has lifeExpectancy - currentAge + 1
\* points whose ages are currentAge, currentAge + 1, ..., lifeExpectancy in
\* this order.
C8_TimelineAges ==
    (rpc = "done") =>
        LET tl == projection.wealthTimeline
        IN  /\ Len(tl) = plan.lifeExpectancy - plan.currentAge + 1
            /\ \A i \in 1..Len(tl) : tl[i].age = plan.currentAge + i - 1

\* a returned timeline of at least four points
C8_Witness ==
    /\ rpc = "done"
    /\ Len(projection.wealthTimeline) >= 4
    /\ projection.wealthTimeline[Len(projection.wealthTimeline)].age
         = plan.lifeExpectancy

PointsInPhase(tl, phase) == {i \in 1..Len(tl) : tl[i].phase = phase}

\* C9: a point is marked accumulation iff its age <= retirementAge and
\* withdrawal iff its age > retirementAge; there are yearsToRetirement + 1
\* accumulation points followed by retirementYears withdrawal points, and no
\* accumulation point follows a withdrawal point.
C9_Phases ==
    (rpc = "done") =>
        LET tl == projection.wealthTimeline
        IN  /\ \A i \in 1..Len(tl) :
                 /\ (tl[i].phase = "accumulation")
                      <=> (tl[i].age <= plan.retirementAge)
                 /\ (tl[i].phase = "withdrawal")
                      <=> (tl[i].age > plan.retirementAge)
            /\ Cardinality(PointsInPhase(tl, "accumulation"))
                 = (plan.retirementAge - plan.currentAge) + 1
            /\ Cardinality(PointsInPhase(tl, "withdrawal"))
                 = plan.lifeExpectancy - plan.retirementAge
            /\ \A i, j \in 1..Len(tl) :
                 (i < j /\ tl[i].phase = "withdrawal")
                    => tl[j].phase = "withdrawal"

\* yearsToRetirement = 1 and retirementYears = 1: two accumulation points and
\* one withdrawal point
C9_Witness ==
    /\ rpc = "done"
    /\ projection.yearsToRetirement = 1
    /\ projection.retirementYears = 1
    /\ Cardinality(PointsInPhase(projection.wealthTimeline, "accumulation")) = 2
    /\ Cardinality(PointsInPhase(projection.wealthTimeline, "withdrawal")) = 1

\* C10: no point emitted to a wealthTimeline has wealth below 0, in either
\* phase, for monthlySavings >= 0, monthlyExpenses >= 0 and a return rate in
\* [-10, 20].
C10_WealthNeverNegative ==
    /\ \A i \in 1..Len(timeline) : timeline[i].wealth >= 0
    /\ (rpc = "done") =>
          \A i \in 1..Len(projection.wealthTimeline) :
              projection.wealthTimeline[i].wealth >= 0

\* the expenses of a withdrawal year exceed the wealth left: the point
\* emitted for that year has wealth 0 after a point with positive wealth
C10_Witness ==
    /\ rpc = "done"
    /\ \E i \in 2..Len(projection.wealthTimeline) :
          /\ projection.wealthTimeline[i].phase = "withdrawal"
          /\ projection.wealthTimeline[i].wealth = 0
          /\ projection.wealthTimeline[i - 1].wealth > 0
          /\ projection.wealthTimeline[i - 1].wealth
               < Mul(plan.monthlyExpenses, Num(12))

-----------------------------------------------------------------------------
(* Properties of the figures of calculateRetirementProjection, checked      *)
(* under SpecRetirement                                                     *)

\* C11: for every valid plan with expectedReturnRate = 0, projectedWealth
\* equals totalInvested, and both equal monthlySavings * 12 *
\* yearsToRetirement.
C11_ZeroRateProjectedIsInvested ==
    (rpc = "done" /\ plan.expectedReturnRate = 0) =>
        /\ projection.projectedWealth = projection.totalInvested
        /\ projection.totalInvested
             = Mul(plan.monthlySavings,
                   Num(12 * (plan.retirementAge - plan.currentAge)))
        /\ projection.yearsToRetirement
             = plan.retirementAge - plan.currentAge

\* a zero-rate plan that saves for two years
C11_Witness ==
    /\ rpc = "done"
    /\ plan.expectedReturnRate = 0
    /\ plan.monthlySavings > 0
    /\ projection.yearsToRetirement = 2
    /\ projection.projectedWealth = Num(24) * (plan.monthlySavings \div SCALE)

\* C12: for every valid plan gap = projectedWealth - targetWealth; gapStatus
\* is "surplus" exactly when gap >= 0 (a gap of 0 included) and "shortfall"
\* exactly when gap < 0.
C12_GapAndStatus ==
    (rpc = "done") =>
        /\ projection.gap
             = projection.projectedWealth - projection.targetWealth
        /\ (projection.gapStatus = "surplus") <=> (projection.gap >= 0)
        /\ (projection.gapStatus = "shortfall") <=> (projection.gap < 0)

\* the projected wealth meets a positive target exactly: a gap of 0
C12_Witness ==
    /\ rpc = "done"
    /\ projection.gap = 0
    /\ projection.targetWealth > 0
    /\ projection.gapStatus = "surplus"

\* monthlyExpenses * 12 * retirementYears
NominalTarget(p) ==
    Mul(Mul(p.monthlyExpenses, Num(12)),
        Num(p.lifeExpectancy - p.retirementAge))

\* C13: without inflation adjustment targetWealth = monthlyExpenses * 12 *
\* retirementYears; with it, targetWealth is >= that figure (the targetWealth
\* of the plan that differs only in inflationAdjusted), and strictly greater
\* when retirementYears >= 2 and monthlyExpenses > 0.
C13_TargetWealth ==
    (rpc = "done") =>
        /\ ~plan.inflationAdjusted
              => projection.targetWealth = NominalTarget(plan)
        /\ plan.inflationAdjusted
              => /\ projection.targetWealth >= NominalTarget(plan)
                 /\ (projection.retirementYears >= 2
                       /\ plan.monthlyExpenses > 0)
                       => projection.targetWealth > NominalTarget(plan)

\* an inflation-adjusted plan with three retirement years and expenses
C13_Witness ==
    /\ rpc = "done"
    /\ plan.inflationAdjusted
    /\ projection.retirementYears = 3
    /\ plan.monthlyExpenses > 0
    /\ projection.targetWealth > NominalTarget(plan)

TotalAllocationOf(p) == p.stocks + p.funds + p.cash

PercentageSum(r) ==
    Add(Add(r.stockPercentage, r.fundPercentage), r.cashPercentage)

\* pct is share / total * 100 up to the rounding of the quotient
IsPercentageOf(pct, share, total) ==
    LET k == total \div SCALE
    IN  /\ IsFinite(pct)
        /\ pct >= 0
        /\ pct <= Num(100)
        /\ Abs(pct * k - 100 * share) <= 50 * k

\* C14 as stated: whenever stocks + funds + cash > 0 the three percentages
\* sum to exactly 100.
C14_SumIsExactly100 ==
    (rpc = "done" /\ TotalAllocationOf(plan) > 0) =>
        PercentageSum(projection) = Num(100)

\* C14: when stocks + funds + cash > 0 each percentage is share / total * 100
\* within [0, 100] and the three sum to 100 up to the rounding error of the
\* three quotients; when the sum is 0 all three percentages are 0.
C14_SumIs100UpToRounding ==
    (rpc = "done") =>
        IF TotalAllocationOf(plan) > 0
        THEN /\ IsPercentageOf(projection.stockPercentage, plan.stocks,
                               TotalAllocationOf(plan))
             /\ IsPercentageOf(projection.fundPercentage, plan.funds,
                               TotalAllocationOf(plan))
             /\ IsPercentageOf(projection.cashPercentage, plan.cash,
                               TotalAllocationOf(plan))
             /\ Abs(PercentageSum(projection) - Num(100)) <= 150
        ELSE /\ projection.stockPercentage = 0
             /\ projection.fundPercentage = 0
             /\ projection.cashPercentage = 0

\* three equal shares: each percentage is a rounded third of 100 and the sum
\* falls short of 100
C14_Witness ==
    /\ rpc = "done"
    /\ plan.stocks > 0
    /\ plan.stocks = plan.funds
    /\ plan.funds = plan.cash
    /\ PercentageSum(projection) # Num(100)
    /\ Abs(PercentageSum(projection) - Num(100)) <= 150

-----------------------------------------------------------------------------
(* Properties of the accumulation phase and of the year of a point *)

\* C15: across the accumulation points of a timeline the wealth never
\* decreases with age and starts from 0 at age = currentAge, for any
\* monthlySavings >= 0 and any return rate in [-10, 20].
C15_AccumulationMonotone ==
    /\ (rpc = "accumulation" /\ timeline # <<>>) =>
          wealth >= 0
    /\ \A i \in 1..Len(timeline) :
          (timeline[i].phase = "accumulation") =>
             /\ (timeline[i].age = plan.currentAge) => timeline[i].wealth = 0
             /\ \A j \in i..Len(timeline) :
                   (timeline[j].phase = "accumulation")
                      => timeline[i].wealth <= timeline[j].wealth

\* a plan with a negative return rate whose accumulation points still grow
C15_Witness ==
    /\ rpc = "done"
    /\ plan.expectedReturnRate < 0
    /\ projection.yearsToRetirement >= 3
    /\ \A i \in 1..projection.yearsToRetirement :
          projection.wealthTimeline[i].wealth
             < projection.wealthTimeline[i + 1].wealth

\* C16: the timeline point for age = retirementAge carries projectedWealth
\* rounded to the nearest integer, for zero and non-zero rates alike, and the
\* withdrawal loop starts from the unrounded projectedWealth.
C16_RetirementPointIsProjectedWealth ==
    /\ (rpc \in {"withdrawal", "done"}) =>
          timeline[plan.retirementAge - plan.currentAge + 1].wealth
             = Round(loc.projectedWealth)
    /\ (rpc = "withdrawal" /\ age = plan.retirementAge + 1) =>
          withdrawalWealth = loc.projectedWealth
    /\ (rpc = "done") =>
          projection.wealthTimeline[projection.yearsToRetirement + 1].wealth
             = Round(projection.projectedWealth)

\* the withdrawal loop is about to start from a projectedWealth that is not
\* a whole number
C16_Witness ==
    /\ rpc = "withdrawal"
    /\ age = plan.retirementAge + 1
    /\ plan.expectedReturnRate # 0
    /\ loc.projectedWealth > 0
    /\ Round(loc.projectedWealth) # loc.projectedWealth
    /\ withdrawalWealth = loc.projectedWealth
    /\ timeline[Len(timeline)].wealth = Round(loc.projectedWealth)

\* C20: the year of every timeline point is the calendar year read once at
\* the start of the call plus (age - currentAge), in both phases; the first
\* point carries the current year and consecutive points are one year apart.
C20_YearOfPoint ==
    (rpc \in {"accumulation", "withdrawal", "done"}) =>
        /\ currentYear \in Years
        /\ \A i \in 1..Len(timeline) :
              timeline[i].year
                 = currentYear + (timeline[i].age - plan.currentAge)
        /\ (timeline # <<>>) => timeline[1].year = currentYear
        /\ \A i \in 1..(Len(timeline) - 1) :
              timeline[i + 1].year = timeline[i].year + 1
        /\ (rpc = "done") => projection.wealthTimeline = timeline

\* a returned timeline with both phases whose last year is the current year
\* plus lifeExpectancy - currentAge
C20_Witness ==
    /\ rpc = "done"
    /\ projection.yearsToRetirement >= 1
    /\ projection.retirementYears >= 2
    /\ projection.wealthTimeline[Len(projection.wealthTimeline)].year
          = ThisYear + (plan.lifeExpectancy - plan.currentAge)

-----------------------------------------------------------------------------
(* Properties of repeated calls, checked under SpecRecall and SpecTwin *)

\* every field of the input record is a field of the result with the same
\* value
PreservesInput(input, output) ==
    /\ DOMAIN input \subseteq DOMAIN output
    /\ \A f \in DOMAIN input : output[f] = input[f]

\* C18: both calculators return a record in which every input field
\* (identifier, owner, numeric inputs, flags, createdAt, updatedAt) has the
\* value it had in the input, no derived field overwrites an input field, and
\* the input record itself is left unmodified by the call; the income <= 0
\* short-circuit path included.
C18_InputPreserved ==
    /\ [](/\ (cfpc = "done") => PreservesInput(cashFlow, metrics)
          /\ (rpc = "done") => PreservesInput(plan, projection)
          /\ (previous # NoResult) =>
                /\ PreservesInput(previous.input, previous.output)
                /\ (cfpc # "idle") => cashFlow = previous.input
                /\ (rpc # "idle") => plan = previous.input)
    /\ [][cashFlow' = cashFlow /\ plan' = plan]_vars

\* a snapshot on the short-circuit path, returned with its own fields
C18_Witness ==
    /\ cfpc = "done"
    /\ cashFlow.monthlyIncome <= 0
    /\ cashFlow.debt > 0
    /\ metrics.debt = cashFlow.debt
    /\ metrics.monthlyIncome = cashFlow.monthlyIncome
    /\ metrics.financialHealthScore = 0

\* C19: calling either calculator twice with the same input and the same
\* current calendar year yields identical outputs, the wealthTimeline
\* included: nothing is carried from one call to the next and the timeline
\* is built anew by each call.
C19_SameInputSameOutput ==
    /\ (cfpc = "done" /\ previous # NoResult) =>
          /\ previous.input = cashFlow
          /\ previous.output = metrics
    /\ (rpc = "done" /\ previous # NoResult) =>
          /\ previous.input = plan
          /\ previous.output = projection
          /\ Len(projection.wealthTimeline)
                = plan.lifeExpectancy - plan.currentAge + 1
    /\ (rpc = "accumulation" /\ age = plan.currentAge) => timeline = <<>>

\* the second call has returned a timeline of both phases equal to the first
C19_Witness ==
    /\ rpc = "done"
    /\ previous # NoResult
    /\ projection.yearsToRetirement >= 1
    /\ projection.retirementYears >= 1
    /\ projection.projectedWealth > 0
    /\ previous.output.wealthTimeline = projection.wealthTimeline

AccumulationPoints(tl) ==
    SelectSeq(tl, LAMBDA pt : pt.phase = "accumulation")

WithdrawalPoints(tl) ==
    SelectSeq(tl, LAMBDA pt : pt.phase = "withdrawal")

\* C17: two plans that differ only in inflationAdjusted yield the same
\* yearsToRetirement, retirementYears, totalInvested, projectedWealth,
\* portfolio percentages and accumulation-phase timeline points; only
\* targetWealth, gap, gapStatus and the withdrawal-phase points may differ.
C17_InflationFlagTouchesOnlyTarget ==
    (rpc = "done" /\ previous # NoResult) =>
        LET a == previous.output
            b == projection
        IN  /\ previous.input
                 = [plan EXCEPT !.inflationAdjusted = ~@]
            /\ DOMAIN a = DOMAIN b
            /\ \A f \in DOMAIN a \ {"inflationAdjusted", "targetWealth",
                                    "gap", "gapStatus", "wealthTimeline"} :
                  a[f] = b[f]
            /\ AccumulationPoints(a.wealthTimeline)
                 = AccumulationPoints(b.wealthTimeline)
            /\ Len(a.wealthTimeline) = Len(b.wealthTimeline)
            /\ \A i \in 1..Len(a.wealthTimeline) :
                  /\ a.wealthTimeline[i].age = b.wealthTimeline[i].age
                  /\ a.wealthTimeline[i].year = b.wealthTimeline[i].year
                  /\ a.wealthTimeline[i].phase = b.wealthTimeline[i].phase

\* the twin plans were both projected: their targets, gap statuses and
\* withdrawal points differ while their accumulation points are positive
C17_Witness ==
    /\ rpc = "done"
    /\ previous # NoResult
    /\ previous.output.targetWealth # projection.targetWealth
    /\ previous.output.gapStatus # projection.gapStatus
    /\ WithdrawalPoints(previous.output.wealthTimeline)
          # WithdrawalPoints(projection.wealthTimeline)
    /\ projection.projectedWealth > 0
    /\ projection.totalInvested > 0

-----------------------------------------------------------------------------
(* Absence of NaN and of divisions by zero, checked under SpecRecall *)

\* the numeric derived fields of a CashFlowMetrics record
MetricsNumbers(m) ==
    {m.remainingCash, m.financialHealthScore, m.debtToEquityRatio,
     m.savingRatio}

\* the numeric derived fields of a RetirementProjection record
ProjectionNumbers(r) ==
    {r.totalInvested, r.projectedWealth, r.targetWealth, r.gap,
     r.stockPercentage, r.fundPercentage, r.cashPercentage}
      \cup {r.wealthTimeline[i].wealth : i \in 1..Len(r.wealthTimeline)}

\* C21: no derived field returned by either calculator is NaN and no division
\* by zero is evaluated: zero or negative income, zero equity, a zero rate
\* and a zero allocation take the safe-default branches, so the only
\* non-finite value ever returned is the debtToEquityRatio Infinity that the
\* code assigns itself when debt > 0 and equity <= 0.
C21_NoNaNNoDivisionByZero ==
    /\ (cfpc = "done") =>
          /\ NaN \notin MetricsNumbers(metrics)
          /\ \A x \in MetricsNumbers(metrics) \ {metrics.debtToEquityRatio} :
                IsFinite(x)
          /\ (metrics.debtToEquityRatio = Infinity) =>
                (cashFlow.debt > 0 /\ cashFlow.monthlyIncome <= cashFlow.debt)
          /\ (cashFlow.monthlyIncome <= 0) =>
                (metrics.savingRatio = 0 /\ metrics.debtToEquityRatio = 0)
    /\ (rpc \in {"accumulation", "withdrawal", "done"}) =>
          /\ IsFinite(loc.monthlyRate)
          /\ IsFinite(wealth)
          /\ IsFinite(withdrawalWealth)
          /\ \A i \in 1..Len(timeline) : IsFinite(timeline[i].wealth)
    /\ (rpc = "done") =>
          /\ \A x \in ProjectionNumbers(projection) : IsFinite(x)
          /\ (plan.expectedReturnRate = 0) =>
                projection.projectedWealth = projection.totalInvested
          /\ (plan.stocks + plan.funds + plan.cash = 0) =>
                projection.stockPercentage = 0

\* a projection returned for a plan with a zero rate and a zero allocation
\* that saves and spends
C21_Witness ==
    /\ rpc = "done"
    /\ plan.expectedReturnRate = 0
    /\ plan.stocks + plan.funds + plan.cash = 0
    /\ plan.monthlySavings > 0
    /\ plan.monthlyExpenses > 0
    /\ projection.projectedWealth = projection.totalInvested
    /\ projection.cashPercentage = 0

-----------------------------------------------------------------------------
(* Properties of the withdrawal phase, checked under SpecRetirement *)

\* the loop of lines 154-178 takes one iteration
IsWithdrawalIteration ==
    /\ rpc = "withdrawal"
    /\ age <= plan.lifeExpectancy
    /\ age' = age + 1

\* C22: for each age from retirementAge + 1 to lifeExpectancy in order the
\* running wealth becomes max(0, wealth * (1 + monthlyRate * 12) -
\* yearlyExpenses), where yearlyExpenses is monthlyExpenses * 12, scaled by
\* 1.04^(age - retirementAge) when inflationAdjusted; the step starts from
\* the clamped unrounded value left by the step before, and only the emitted
\* point is rounded.
C22_WithdrawalRecurrence ==
    [][IsWithdrawalIteration =>
          LET annualExpenses == Mul(plan.monthlyExpenses, Num(12))
              yearlyExpenses ==
                  IF plan.inflationAdjusted
                  THEN Mul(annualExpenses,
                           Pow(Num(104) \div 100, age - plan.retirementAge))
                  ELSE annualExpenses
              grown == Mul(withdrawalWealth,
                           Add(Num(1), Mul(loc.monthlyRate, Num(12))))
              next == IF grown - yearlyExpenses > 0
                      THEN grown - yearlyExpenses ELSE 0
          IN  /\ withdrawalWealth' = next
              /\ Len(timeline') = Len(timeline) + 1
              /\ timeline'[Len(timeline')].age = age
              /\ timeline'[Len(timeline')].wealth = Round(next)
              /\ timeline'[Len(timeline')].phase = "withdrawal"
              /\ (timeline # <<>>) =>
                    timeline[Len(timeline)].age = age - 1
              /\ (age > plan.retirementAge + 1) =>
                    timeline[Len(timeline)].wealth = Round(withdrawalWealth)]_vars

\* two withdrawal years of an inflation-adjusted plan have passed and the
\* running wealth is positive and not a whole number
C22_Witness ==
    /\ rpc = "withdrawal"
    /\ age = plan.retirementAge + 3
    /\ plan.inflationAdjusted
    /\ plan.monthlyExpenses > 0
    /\ withdrawalWealth > 0
    /\ Round(withdrawalWealth) # withdrawalWealth
    /\ timeline[Len(timeline)].wealth = Round(withdrawalWealth)

\* C23: depletion is absorbing: once the running wealth of the withdrawal
\* phase is 0 at some age it is 0 at every later age up to lifeExpectancy,
\* whatever the return rate; it never recovers from 0 and is never negative.
C23_DepletionAbsorbing ==
    [][(rpc = "withdrawal") =>
          /\ withdrawalWealth' >= 0
          /\ (withdrawalWealth = 0) => withdrawalWealth' = 0]_vars

\* a plan with a positive return rate that ran out of wealth at least two
\* years before lifeExpectancy
C23_Witness ==
    /\ rpc = "done"
    /\ plan.expectedReturnRate > 0
    /\ projection.projectedWealth > 0
    /\ projection.retirementYears >= 3
    /\ withdrawalWealth = 0
    /\ projection.wealthTimeline[Len(projection.wealthTimeline) - 2].wealth = 0
    /\ projection.wealthTimeline[Len(projection.wealthTimeline) - 3].wealth > 0

-----------------------------------------------------------------------------
(* Properties of the financialHealthScore, checked under SpecCashFlow *)

\* x limited to [lo, hi]
Clamp(x, lo, hi) == IF x < lo THEN lo ELSE IF x > hi THEN hi ELSE x

\* savingScore + cashScore + deScore limited to [0, 100], each component
\* written as the closed expression of the unrounded ratios
ComponentSum(cf) ==
    LET income == cf.monthlyIncome
        savingScore ==
            Clamp(Mul(Div(Div(cf.investments, income), Num(2) \div 10),
                      Num(40)),
                  -Infinity, Num(40))
        remainingCash == income - (cf.expenses + cf.debt + cf.investments)
        cashScore ==
            Clamp(Mul(Div(remainingCash, income), Num(35)),
                  Num(-35), Num(35))
        equity == income - cf.debt
        deScore ==
            IF cf.debt = 0 THEN Num(25)
            ELSE IF equity <= 0 THEN 0
            ELSE Div(Num(25), Add(Num(1), Div(cf.debt, equity)))
    IN  Clamp(savingScore + cashScore + deScore, 0, Num(100))

\* the rounding error the three components can accumulate
ScoreTolerance == SCALE \div 10000

\* C24: for monthlyIncome > 0 the financialHealthScore returned is
\* savingScore + cashScore + deScore limited to [0, 100] and rounded to the
\* nearest integer, with savingScore = min((investments / income) / 0.2 * 40,
\* 40), cashScore = remainingCash / income * 35 limited to [-35, 35] and
\* deScore = 25 / (1 + debtToEquityRatio) for a positive ratio (0 for an
\* infinite one) and 25 otherwise; the components are computed from the
\* unrounded ratios, not from the 2-decimal values returned.
C24_ScoreFromComponents ==
    (cfpc = "done" /\ cashFlow.monthlyIncome > 0) =>
        /\ IsInteger(metrics.financialHealthScore)
        /\ Abs(metrics.financialHealthScore - ComponentSum(cashFlow))
              <= HALF + ScoreTolerance

\* a snapshot with debt whose saving ratio below 20% is not a 2-decimal
\* number: the score follows the unrounded ratio
C24_Witness ==
    /\ cfpc = "done"
    /\ cashFlow.monthlyIncome > 0
    /\ cashFlow.debt > 0
    /\ cashFlow.debt < cashFlow.monthlyIncome
    /\ cashFlow.investments * 5 < cashFlow.monthlyIncome
    /\ metrics.savingRatio # Div(cashFlow.investments, cashFlow.monthlyIncome)
    /\ metrics.financialHealthScore > 0
    /\ metrics.financialHealthScore < Num(100)

\* C28: for every snapshot with monthlyIncome > 0 and non-negative expenses,
\* debt and investments the financialHealthScore never exceeds 93: the
\* savings component reaches its cap of 40 only with investments of 20% of
\* the income, which leaves at most 80% of the income, 28 points, as
\* remaining cash.
C28_ScoreAtMost93 ==
    (cfpc = "done" /\ cashFlow.monthlyIncome > 0) =>
        metrics.financialHealthScore <= Num(93)

\* the best snapshot: 20% of the income invested and nothing else spent
C28_Witness ==
    /\ cfpc = "done"
    /\ cashFlow.monthlyIncome > 0
    /\ cashFlow.investments * 5 = cashFlow.monthlyIncome
    /\ cashFlow.expenses = 0
    /\ cashFlow.debt = 0
    /\ metrics.financialHealthScore = Num(93)

-----------------------------------------------------------------------------
(* Properties of the closed form, checked under SpecRetirement *)

\* C25 as stated: for every valid plan a negative expectedReturnRate yields
\* projectedWealth < totalInvested and a positive one projectedWealth >
\* totalInvested, and the result is finite.
C25_StrictForEveryPlan ==
    (rpc = "done") =>
        /\ IsFinite(projection.projectedWealth)
        /\ (plan.expectedReturnRate < 0) =>
              projection.projectedWealth < projection.totalInvested
        /\ (plan.expectedReturnRate > 0) =>
              projection.projectedWealth > projection.totalInvested

\* C25: a negative expectedReturnRate is accepted; for every valid plan that
\* saves (monthlySavings > 0) it yields projectedWealth < totalInvested and a
\* positive rate yields projectedWealth > totalInvested; a plan that saves
\* nothing has projectedWealth = totalInvested = 0 at every rate; the result
\* is finite for every rate in [-10, 20].
C25_StrictWhenSaving ==
    (rpc = "done") =>
        /\ IsFinite(projection.projectedWealth)
        /\ IsFinite(projection.totalInvested)
        /\ (plan.monthlySavings > 0 /\ plan.expectedReturnRate < 0) =>
              projection.projectedWealth < projection.totalInvested
        /\ (plan.monthlySavings > 0 /\ plan.expectedReturnRate > 0) =>
              projection.projectedWealth > projection.totalInvested
        /\ (plan.monthlySavings = 0) =>
              /\ projection.projectedWealth = 0
              /\ projection.totalInvested = 0

\* a saving plan at the lowest rate accepted: the projection is returned and
\* the wealth is positive but below the amount invested
C25_Witness ==
    /\ rpc = "done"
    /\ plan.expectedReturnRate = Num(MinRate)
    /\ plan.monthlySavings > 0
    /\ projection.projectedWealth > 0
    /\ projection.projectedWealth < projection.totalInvested

RECURSIVE AnnuityDue(_, _, _)
\* the balance after n months when each month the contribution is added at
\* the start of the month and the balance then grows by (1 + r)
AnnuityDue(monthlySavings, r, n) ==
    IF n = 0 THEN 0
    ELSE Mul(Add(AnnuityDue(monthlySavings, r, n - 1), monthlySavings),
             Add(Num(1), r))

\* the rounding error the closed form can accumulate: a hundredth of a unit
ClosedFormTolerance == SCALE \div 100

\* C26: for every non-zero monthly rate r and every n = 12 * years the
\* closed form monthlySavings * ((1 + r)^n - 1) / r * (1 + r), used for
\* projectedWealth and for each accumulation point, equals the balance of
\* the month-by-month annuity-due process run for n months, up to the
\* rounding error of the two computations.
C26_ClosedFormIsAnnuityDue ==
    /\ (rpc = "accumulation" /\ age > plan.currentAge
          /\ plan.expectedReturnRate # 0) =>
          Abs(wealth - AnnuityDue(plan.monthlySavings, loc.monthlyRate,
                                  12 * (age - 1 - plan.currentAge)))
             <= ClosedFormTolerance
    /\ (rpc = "done" /\ plan.expectedReturnRate # 0) =>
          Abs(projection.projectedWealth
                - AnnuityDue(plan.monthlySavings, loc.monthlyRate,
                             12 * projection.yearsToRetirement))
             <= ClosedFormTolerance

\* four years of saving at the highest rate: the closed form and the
\* month-by-month balance are both far above the amount invested
C26_Witness ==
    /\ rpc = "done"
    /\ plan.expectedReturnRate = Num(MaxRate)
    /\ plan.monthlySavings > 0
    /\ projection.yearsToRetirement >= 3
    /\ projection.projectedWealth > projection.totalInvested + Num(10)
    /\ AnnuityDue(plan.monthlySavings, loc.monthlyRate,
                  12 * projection.yearsToRetirement)
          > projection.totalInvested + Num(10)


\* C29: with a nonnegative expected return rate and no inflation adjustment
\* the running wealth of the withdrawal phase is at least the gap at every
\* age; so a plan whose gap is nonnegative still holds wealth at every age
\* before lifeExpectancy, and at a rate of exactly 0 the wealth left at
\* lifeExpectancy is max(0, gap)
C29_SurplusNeverDepleted ==
    (/\ rpc \in {"withdrawal", "done"}
     /\ plan.expectedReturnRate >= 0
     /\ ~plan.inflationAdjusted)
    => /\ withdrawalWealth >= loc.gap
       /\ (/\ rpc = "withdrawal"
           /\ InWithdrawal(age, plan.lifeExpectancy)
           /\ loc.gap >= 0
           /\ loc.projectedWealth > 0)
          => withdrawalWealth > 0
       /\ (rpc = "done" /\ plan.expectedReturnRate = 0)
          => /\ withdrawalWealth = Max(0, loc.gap)
             /\ timeline[Len(timeline)].wealth = Max(0, loc.gap)

\* a plan at 0% whose wealth exactly covers the expenses reaches
\* lifeExpectancy with nothing left after holding wealth the year before
C29_Witness ==
    /\ rpc = "done"
    /\ plan.expectedReturnRate = 0
    /\ ~plan.inflationAdjusted
    /\ plan.monthlyExpenses > 0
    /\ loc.gap = 0
    /\ loc.retirementYears >= 2
    /\ timeline[Len(timeline)].wealth = 0
    /\ timeline[Len(timeline) - 1].wealth > 0

\* the yearly expenses the withdrawal loop subtracts at the ages a..lifeExpectancy
RECURSIVE TotalWithdrawn(_, _)
TotalWithdrawn(p, a) ==
    IF ~InWithdrawal(a, p.lifeExpectancy) THEN 0
    ELSE Add(YearlyExpenses(a, p.retirementAge, p.monthlyExpenses,
                            p.inflationAdjusted),
             TotalWithdrawn(p, a + 1))

WithdrawnTolerance == SCALE \div 100

\* C30 as stated: in both modes the expenses withdrawn over the withdrawal
\* phase add up to the targetWealth of the same plan
C30_WithdrawnIsTargetInBothModes ==
    rpc = "done"
    => Abs(TotalWithdrawn(plan, plan.retirementAge + 1)
           - projection.targetWealth) <= WithdrawnTolerance

\* C30: without inflation adjustment the expenses withdrawn over the
\* withdrawal phase add up to exactly targetWealth; with it they add up to
\* 1.04 times targetWealth, because the loop inflates from the first year on
\* while the target's factor starts at 1.04^0
C30_WithdrawnIsTargetTimesFirstYearInflation ==
    rpc = "done"
    => LET total == TotalWithdrawn(plan, plan.retirementAge + 1)
       IN  IF plan.inflationAdjusted
           THEN Abs(total - Mul(Num(104) \div 100, projection.targetWealth))
                    <= WithdrawnTolerance
           ELSE total = projection.targetWealth

\* an inflation-adjusted plan with expenses whose withdrawals over several
\* years exceed its targetWealth
C30_Witness ==
    /\ rpc = "done"
    /\ plan.inflationAdjusted
    /\ plan.monthlyExpenses > 0
    /\ projection.retirementYears >= 2
    /\ TotalWithdrawn(plan, plan.retirementAge + 1)
           > projection.targetWealth + WithdrawnTolerance

-----------------------------------------------------------------------------
(* Properties of the pages over the stored records, checked under SpecStore *)

\* r is a stored record and no stored record has a later updatedAt
MostRecentlyUpdated(table, r) ==
    r \in table /\ \A s \in table : s.updatedAt <= r.updatedAt

\* the live query of the page has delivered the present content of its table
CashFlowPageCurrent ==
    /\ ~page.cashFlow.isLoading
    /\ page.cashFlow.cashflows = ToArray(db.cashFlows)

RetirementPageCurrent ==
    /\ ~page.retirement.isLoading
    /\ page.retirement.retirements = OrderByCreatedAtReverse(db.retirements)

\* the cash-flow page has passed the stored snapshot with the greatest
\* updatedAt to calculateCashFlowMetrics
CashFlowPagePassesMostRecentlyUpdated ==
    (CashFlowPageCurrent /\ db.cashFlows # {})
    => MostRecentlyUpdated(db.cashFlows, cashFlow)

\* the retirement page has passed the stored plan with the greatest
\* updatedAt to calculateRetirementProjection
RetirementPagePassesMostRecentlyUpdated ==
    (RetirementPageCurrent /\ db.retirements # {})
    => MostRecentlyUpdated(db.retirements, plan)

\* C27: after any sequence of creates and updates, once a page shows the
\* present content of its table, the record it has passed to its calculator
\* is the stored record with the greatest updatedAt
C27_PagesPassMostRecentlyUpdated ==
    /\ CashFlowPagePassesMostRecentlyUpdated
    /\ RetirementPagePassesMostRecentlyUpdated

=============================================================================
